---- MODULE Spec2Model ----
(***************************************************************************)
(* Six-minute-walk calculator: stopwatch, lap ledger, manual lap table and *)
(* per-minute distance reconstruction of src/script.js (lines 1-812, the   *)
(* first complete script in the file).                                     *)
(*                                                                         *)
(* Representation.  Times read from performance.now() are whole            *)
(* milliseconds.  The lap ledger holds seconds (currentMs / 1000); to keep *)
(* that division exact a value of v seconds is stored as the integer       *)
(* v * 1000 (thousandths of a second).  Text is a sequence of one-character*)
(* strings.  Every JavaScript function is an operator from the program     *)
(* state (a record with one field per variable) to the state it leaves     *)
(* behind, so a function that calls another is the composition of the two. *)
(***************************************************************************)
EXTENDS Integers, Sequences, FiniteSets, TLC

VARIABLES
    now,                 \* reading of performance.now(), ms
    elapsedMs,           \* let elapsedMs
    stopwatchRunning,    \* let stopwatchRunning
    stopwatchStartTime,  \* let stopwatchStartTime (Null or ms)
    animationFrameId,    \* let animationFrameId (Null or id)
    pendingFrames,       \* ids of the callbacks requestAnimationFrame holds
    lapTimes,            \* let lapTimes, thousandths of a second
    isManualMode,        \* let isManualMode
    manualLapInputs,     \* the value of each <input> of manualLapInputs
    lapError,            \* lapErrorDiv.textContent
    minuteError,         \* minuteErrorDiv.textContent
    resultsBox,          \* resultsBox.textContent
    toggleText,          \* toggleButton.textContent
    toggleDisabled,      \* toggleButton.disabled
    lapDisabled,         \* lapButton.disabled
    resetDisabled,       \* resetButton.disabled
    runningMs            \* history: wall-clock ms spent running since reset

progVars == <<now, elapsedMs, stopwatchRunning, stopwatchStartTime,
              animationFrameId, pendingFrames, lapTimes, isManualMode,
              manualLapInputs, lapError, minuteError, resultsBox, toggleText,
              toggleDisabled, lapDisabled, resetDisabled>>

vars == <<now, elapsedMs, stopwatchRunning, stopwatchStartTime,
          animationFrameId, pendingFrames, lapTimes, isManualMode,
          manualLapInputs, lapError, minuteError, resultsBox, toggleText,
          toggleDisabled, lapDisabled, resetDisabled, runningMs>>

-----------------------------------------------------------------------------
(* Bounds of the model *)

MaxNow == 540000
MaxLaps == 2
MaxCells == 2

ClockSteps == {180000}

-----------------------------------------------------------------------------
(* Program constants *)

Null == -1

MaxMs == 6 * 60 * 1000

LAP_LENGTH_M == 50

SecUnit == 1000

(* Lap counts are kept in thousandths of a lap, the three decimals the
   results box prints. *)
LapsUnit == 1000

-----------------------------------------------------------------------------
(* Text helpers *)

DigitChars == <<"0", "1", "2", "3", "4", "5", "6", "7", "8", "9">>

IsDigit(c) == \E d \in 1..10 : DigitChars[d] = c

DigitVal(c) == (CHOOSE d \in 1..10 : DigitChars[d] = c) - 1

IsSpace(c) == c = " "

AllDigits(cs) == \A i \in 1..Len(cs) : IsDigit(cs[i])

RECURSIVE TrimLeft(_)
TrimLeft(cs) ==
    IF cs # <<>> /\ IsSpace(Head(cs)) THEN TrimLeft(Tail(cs)) ELSE cs

RECURSIVE TrimRight(_)
TrimRight(cs) ==
    IF cs # <<>> /\ IsSpace(cs[Len(cs)])
    THEN TrimRight(SubSeq(cs, 1, Len(cs) - 1))
    ELSE cs

Trim(cs) == TrimRight(TrimLeft(cs))

RECURSIVE ParseInt(_)
ParseInt(cs) ==
    IF cs = <<>> THEN 0
    ELSE 10 * ParseInt(SubSeq(cs, 1, Len(cs) - 1)) + DigitVal(cs[Len(cs)])

RECURSIVE ToChars(_)
ToChars(n) ==
    IF n < 10 THEN <<DigitChars[n + 1]>>
    ELSE ToChars(n \div 10) \o <<DigitChars[(n % 10) + 1]>>

PadStart2(cs) == IF Len(cs) < 2 THEN <<"0">> \o cs ELSE cs

(* Math.floor((seconds - whole) * 10) in binary floating point: where the
   fraction is a whole number of tenths the product can fall just below it
   (65.3 - 65 gives 2.9999999999999716), so the digit is the exact one or the
   one before it. *)
floatTenths(seconds) ==
    LET exact == (seconds % SecUnit) \div 100
    IN  IF seconds % 100 = 0 /\ exact > 0 THEN {exact - 1, exact}
        ELSE {exact}

(* The strings formatTimeSeconds can give for a time: mm:ss.t *)
formatTimeSeconds(seconds) ==
    LET whole == seconds \div SecUnit
        minutes == whole \div 60
        secs == whole % 60
    IN  { PadStart2(ToChars(minutes)) \o <<":">> \o PadStart2(ToChars(secs))
              \o <<".">> \o ToChars(tenths) :
          tenths \in floatTenths(seconds) }

formatMmSs_secondsNotReduced(totalSeconds) ==
    LET whole == totalSeconds \div SecUnit
        minutes == whole \div 60
        secs == whole
    IN  PadStart2(ToChars(minutes)) \o <<":">> \o PadStart2(ToChars(secs))

formatMmSs(totalSeconds) ==
    LET whole == totalSeconds \div SecUnit
        minutes == whole \div 60
        secs == whole % 60
    IN  PadStart2(ToChars(minutes)) \o <<":">> \o PadStart2(ToChars(secs))

parseFlexibleMmSsToSeconds_unanchored(raw) ==
    LET s == Trim(raw)
    IN  IF s = <<>> THEN Null
        ELSE IF AllDigits(s) THEN ParseInt(s) * SecUnit
        ELSE IF \E k \in 1..Len(s) :
                    /\ s[k] = ":"
                    /\ AllDigits(SubSeq(s, 1, k - 1))
                    /\ LET r == TrimLeft(SubSeq(s, k + 1, Len(s)))
                       IN  Len(r) >= 1 /\ IsDigit(r[1])
        THEN LET k == CHOOSE k \in 1..Len(s) : s[k] = ":"
                 m1 == SubSeq(s, 1, k - 1)
                 r == TrimLeft(SubSeq(s, k + 1, Len(s)))
                 m2 == IF Len(r) >= 2 /\ IsDigit(r[2])
                       THEN SubSeq(r, 1, 2) ELSE SubSeq(r, 1, 1)
                 minutes == IF m1 = <<>> THEN 0 ELSE ParseInt(m1)
                 secs == ParseInt(m2)
             IN  (minutes * 60 + secs) * SecUnit
        ELSE Null

parseFlexibleMmSsToSeconds_emptySecondsAsZero(raw) ==
    LET s == Trim(raw)
    IN  IF s = <<>> THEN Null
        ELSE IF AllDigits(s) THEN ParseInt(s) * SecUnit
        ELSE IF \E k \in 1..Len(s) :
                    /\ s[k] = ":"
                    /\ AllDigits(SubSeq(s, 1, k - 1))
                    /\ LET r == TrimLeft(SubSeq(s, k + 1, Len(s)))
                       IN  Len(r) \in {0, 1, 2} /\ AllDigits(r)
        THEN LET k == CHOOSE k \in 1..Len(s) : s[k] = ":"
                 m1 == SubSeq(s, 1, k - 1)
                 m2 == TrimLeft(SubSeq(s, k + 1, Len(s)))
                 minutes == IF m1 = <<>> THEN 0 ELSE ParseInt(m1)
                 secs == IF m2 = <<>> THEN 0 ELSE ParseInt(m2)
             IN  (minutes * 60 + secs) * SecUnit
        ELSE Null

parseFlexibleMmSsToSeconds(raw) ==
    LET s == Trim(raw)
    IN  IF s = <<>> THEN Null
        ELSE IF AllDigits(s) THEN ParseInt(s) * SecUnit
        ELSE IF \E k \in 1..Len(s) :
                    /\ s[k] = ":"
                    /\ AllDigits(SubSeq(s, 1, k - 1))
                    /\ LET r == TrimLeft(SubSeq(s, k + 1, Len(s)))
                       IN  Len(r) \in {1, 2} /\ AllDigits(r)
        THEN LET k == CHOOSE k \in 1..Len(s) : s[k] = ":"
                 m1 == SubSeq(s, 1, k - 1)
                 m2 == TrimLeft(SubSeq(s, k + 1, Len(s)))
                 minutes == IF m1 = <<>> THEN 0 ELSE ParseInt(m1)
                 secs == ParseInt(m2)
             IN  (minutes * 60 + secs) * SecUnit
        ELSE Null

-----------------------------------------------------------------------------
(* The program state as one record *)

State ==
    [now |-> now, elapsedMs |-> elapsedMs,
     stopwatchRunning |-> stopwatchRunning,
     stopwatchStartTime |-> stopwatchStartTime,
     animationFrameId |-> animationFrameId,
     pendingFrames |-> pendingFrames, lapTimes |-> lapTimes,
     isManualMode |-> isManualMode, manualLapInputs |-> manualLapInputs,
     lapError |-> lapError, minuteError |-> minuteError,
     resultsBox |-> resultsBox, toggleText |-> toggleText,
     toggleDisabled |-> toggleDisabled, lapDisabled |-> lapDisabled,
     resetDisabled |-> resetDisabled]

(* The handler is run once and every variable takes its value from the state
   the handler leaves. *)
Becomes(s) ==
    \E after \in {s} :
        /\ now' = after.now
        /\ elapsedMs' = after.elapsedMs
        /\ stopwatchRunning' = after.stopwatchRunning
        /\ stopwatchStartTime' = after.stopwatchStartTime
        /\ animationFrameId' = after.animationFrameId
        /\ pendingFrames' = after.pendingFrames
        /\ lapTimes' = after.lapTimes
        /\ isManualMode' = after.isManualMode
        /\ manualLapInputs' = after.manualLapInputs
        /\ lapError' = after.lapError
        /\ minuteError' = after.minuteError
        /\ resultsBox' = after.resultsBox
        /\ toggleText' = after.toggleText
        /\ toggleDisabled' = after.toggleDisabled
        /\ lapDisabled' = after.lapDisabled
        /\ resetDisabled' = after.resetDisabled

NoError == [kind |-> "none", lap |-> 0]

InitialResults == [kind |-> "initial"]

-----------------------------------------------------------------------------
(* requestAnimationFrame / cancelAnimationFrame *)

requestAnimationFrame(s) ==
    LET id == CHOOSE i \in 1..(Cardinality(s.pendingFrames) + 1) :
                  i \notin s.pendingFrames
    IN  [s EXCEPT !.animationFrameId = id,
                  !.pendingFrames = @ \cup {id}]

cancelAnimationFrame(s) ==
    IF s.animationFrameId # Null
    THEN [s EXCEPT !.pendingFrames = @ \ {s.animationFrameId},
                   !.animationFrameId = Null]
    ELSE s

-----------------------------------------------------------------------------
(* Stopwatch *)

tick_noRebase(s) ==
    IF ~s.stopwatchRunning THEN s
    ELSE LET diff == s.now - s.stopwatchStartTime
             newElapsed == s.elapsedMs + diff
         IN  IF newElapsed >= MaxMs
             THEN LET s1 == [s EXCEPT !.elapsedMs = MaxMs,
                                      !.stopwatchRunning = FALSE]
                      s2 == cancelAnimationFrame(s1)
                  IN  [s2 EXCEPT !.toggleText = "Finished",
                                 !.toggleDisabled = TRUE,
                                 !.lapDisabled = TRUE]
             ELSE requestAnimationFrame([s EXCEPT !.elapsedMs = newElapsed])

tick_dropsElapsed(s) ==
    IF ~s.stopwatchRunning THEN s
    ELSE LET diff == s.now - s.stopwatchStartTime
             newElapsed == s.elapsedMs + diff
         IN  IF newElapsed >= MaxMs
             THEN LET s1 == [s EXCEPT !.elapsedMs = MaxMs,
                                      !.stopwatchRunning = FALSE]
                      s2 == cancelAnimationFrame(s1)
                  IN  [s2 EXCEPT !.toggleText = "Finished",
                                 !.toggleDisabled = TRUE,
                                 !.lapDisabled = TRUE]
             ELSE requestAnimationFrame(
                      [s EXCEPT !.stopwatchStartTime = s.now])

tick_noRunningGuard(s) ==
    LET diff == s.now - s.stopwatchStartTime
        newElapsed == s.elapsedMs + diff
    IN  IF newElapsed >= MaxMs
        THEN LET s1 == [s EXCEPT !.elapsedMs = MaxMs,
                                 !.stopwatchRunning = FALSE]
                 s2 == cancelAnimationFrame(s1)
             IN  [s2 EXCEPT !.toggleText = "Finished",
                            !.toggleDisabled = TRUE,
                            !.lapDisabled = TRUE]
        ELSE requestAnimationFrame(
                 [s EXCEPT !.elapsedMs = newElapsed,
                           !.stopwatchStartTime = s.now])

tick_noReschedule(s) ==
    IF ~s.stopwatchRunning THEN s
    ELSE LET diff == s.now - s.stopwatchStartTime
             newElapsed == s.elapsedMs + diff
         IN  IF newElapsed >= MaxMs
             THEN LET s1 == [s EXCEPT !.elapsedMs = MaxMs,
                                      !.stopwatchRunning = FALSE]
                      s2 == cancelAnimationFrame(s1)
                  IN  [s2 EXCEPT !.toggleText = "Finished",
                                 !.toggleDisabled = TRUE,
                                 !.lapDisabled = TRUE]
             ELSE [s EXCEPT !.elapsedMs = newElapsed,
                            !.stopwatchStartTime = s.now]

tick(s) ==
    IF ~s.stopwatchRunning THEN s
    ELSE LET diff == s.now - s.stopwatchStartTime
             newElapsed == s.elapsedMs + diff
         IN  IF newElapsed >= MaxMs
             THEN LET s1 == [s EXCEPT !.elapsedMs = MaxMs,
                                      !.stopwatchRunning = FALSE]
                      s2 == cancelAnimationFrame(s1)
                  IN  [s2 EXCEPT !.toggleText = "Finished",
                                 !.toggleDisabled = TRUE,
                                 !.lapDisabled = TRUE]
             ELSE requestAnimationFrame(
                      [s EXCEPT !.elapsedMs = newElapsed,
                                !.stopwatchStartTime = s.now])

startTimer_noReference(s) ==
    IF s.stopwatchRunning THEN s
    ELSE requestAnimationFrame(
             [s EXCEPT !.stopwatchRunning = TRUE,
                       !.toggleText = "Stop",
                       !.lapDisabled = FALSE,
                       !.resetDisabled = FALSE])

startTimer_noRunningGuard(s) ==
    requestAnimationFrame(
        [s EXCEPT !.stopwatchRunning = TRUE,
                  !.stopwatchStartTime = s.now,
                  !.toggleText = "Stop",
                  !.lapDisabled = FALSE,
                  !.resetDisabled = FALSE])

startTimer(s) ==
    IF s.stopwatchRunning THEN s
    ELSE requestAnimationFrame(
             [s EXCEPT !.stopwatchRunning = TRUE,
                       !.stopwatchStartTime = s.now,
                       !.toggleText = "Stop",
                       !.lapDisabled = FALSE,
                       !.resetDisabled = FALSE])

stopTimer_noClamp(s) ==
    IF ~s.stopwatchRunning THEN s
    ELSE LET s1 == cancelAnimationFrame([s EXCEPT !.stopwatchRunning = FALSE])
             e == s1.elapsedMs + (s1.now - s1.stopwatchStartTime)
         IN  [s1 EXCEPT !.elapsedMs = e,
                        !.stopwatchStartTime = s1.now,
                        !.toggleText = "Start",
                        !.lapDisabled = TRUE]

stopTimer_noCancel(s) ==
    IF ~s.stopwatchRunning THEN s
    ELSE LET s1 == [s EXCEPT !.stopwatchRunning = FALSE]
             e == s1.elapsedMs + (s1.now - s1.stopwatchStartTime)
         IN  [s1 EXCEPT !.elapsedMs = IF e > MaxMs THEN MaxMs ELSE e,
                        !.stopwatchStartTime = s1.now,
                        !.toggleText = "Start",
                        !.lapDisabled = TRUE]

stopTimer(s) ==
    IF ~s.stopwatchRunning THEN s
    ELSE LET s1 == cancelAnimationFrame([s EXCEPT !.stopwatchRunning = FALSE])
             e == s1.elapsedMs + (s1.now - s1.stopwatchStartTime)
         IN  [s1 EXCEPT !.elapsedMs = IF e > MaxMs THEN MaxMs ELSE e,
                        !.stopwatchStartTime = s1.now,
                        !.toggleText = "Start",
                        !.lapDisabled = TRUE]

resetTimer_noCancel(s) ==
    LET s1 == [s EXCEPT !.stopwatchRunning = FALSE]
    IN  [s1 EXCEPT !.elapsedMs = 0,
                   !.stopwatchStartTime = Null,
                   !.toggleText = "Start",
                   !.toggleDisabled = FALSE,
                   !.lapDisabled = TRUE,
                   !.resetDisabled = TRUE,
                   !.lapTimes = <<>>,
                   !.isManualMode = FALSE,
                   !.manualLapInputs = <<>>,
                   !.lapError = NoError]

resetTimer_keepsLaps(s) ==
    LET s1 == cancelAnimationFrame([s EXCEPT !.stopwatchRunning = FALSE])
    IN  [s1 EXCEPT !.elapsedMs = 0,
                   !.stopwatchStartTime = Null,
                   !.toggleText = "Start",
                   !.toggleDisabled = FALSE,
                   !.lapDisabled = TRUE,
                   !.resetDisabled = TRUE,
                   !.isManualMode = FALSE,
                   !.manualLapInputs = <<>>,
                   !.lapError = NoError]

resetTimer(s) ==
    LET s1 == cancelAnimationFrame([s EXCEPT !.stopwatchRunning = FALSE])
    IN  [s1 EXCEPT !.elapsedMs = 0,
                   !.stopwatchStartTime = Null,
                   !.toggleText = "Start",
                   !.toggleDisabled = FALSE,
                   !.lapDisabled = TRUE,
                   !.resetDisabled = TRUE,
                   !.lapTimes = <<>>,
                   !.isManualMode = FALSE,
                   !.manualLapInputs = <<>>,
                   !.lapError = NoError]

toggleTimer(s) ==
    LET s1 == [s EXCEPT !.lapError = NoError]
    IN  IF ~s1.stopwatchRunning THEN startTimer(s1) ELSE stopTimer(s1)

(* toggleTimer as the second script of script.js writes it (lines 1108-1117):
   its first statement tests showErrors, a name that script declares only as
   the parameter of syncLapTimesFromManualTable (line 1240).  Evaluating it in
   toggleTimer raises a ReferenceError, the handler ends there, and neither
   startTimer nor stopTimer is called: the state is left as it was.  The
   variables it would have written are declared as in the first script
   (lines 831-838). *)
toggleTimer_secondScript(s) == s

recordLap_noOrderCheck(s) ==
    IF ~s.stopwatchRunning THEN s
    ELSE LET currentSec == s.elapsedMs + (s.now - s.stopwatchStartTime)
         IN  [s EXCEPT !.lapTimes = Append(@, currentSec),
                       !.lapError = NoError]

recordLap_acceptsEqual(s) ==
    IF ~s.stopwatchRunning THEN s
    ELSE LET currentSec == s.elapsedMs + (s.now - s.stopwatchStartTime)
         IN  IF Len(s.lapTimes) > 0 /\ currentSec < s.lapTimes[Len(s.lapTimes)]
             THEN [s EXCEPT !.lapError = [kind |-> "lapIgnored", lap |-> 0]]
             ELSE [s EXCEPT !.lapTimes = Append(@, currentSec),
                            !.lapError = NoError]

recordLap_noRunningGuard(s) ==
    LET currentSec == s.elapsedMs + (s.now - s.stopwatchStartTime)
    IN  IF Len(s.lapTimes) > 0 /\ currentSec <= s.lapTimes[Len(s.lapTimes)]
        THEN [s EXCEPT !.lapError = [kind |-> "lapIgnored", lap |-> 0]]
        ELSE [s EXCEPT !.lapTimes = Append(@, currentSec),
                       !.lapError = NoError]

recordLap(s) ==
    IF ~s.stopwatchRunning THEN s
    ELSE LET diff == s.now - s.stopwatchStartTime
             currentMs == s.elapsedMs + diff
             currentSec == currentMs
         IN  IF Len(s.lapTimes) > 0 /\ currentSec <= s.lapTimes[Len(s.lapTimes)]
             THEN [s EXCEPT !.lapError = [kind |-> "lapIgnored", lap |-> 0]]
             ELSE [s EXCEPT !.lapTimes = Append(@, currentSec),
                            !.lapError = NoError]

-----------------------------------------------------------------------------
(* Manual lap table *)

clearManualLapTableToSingleRow(s) ==
    [s EXCEPT !.manualLapInputs = << <<>> >>]

addManualLapRow(s) ==
    [s EXCEPT !.manualLapInputs = Append(@, <<>>)]

notAfterPrevious_equalAllowed(parsed, sec) ==
    Len(parsed) > 0 /\ sec < parsed[Len(parsed)]

(* The test of line 417: sec is not after the last time read so far. *)
notAfterPrevious(parsed, sec) ==
    Len(parsed) > 0 /\ sec <= parsed[Len(parsed)]

RECURSIVE syncLoop(_, _, _, _, _, _)
syncLoop(s, i, parsed, seenEmpty, normalize, allowTrailingEmpty) ==
    IF i > Len(s.manualLapInputs)
    THEN [ok |-> TRUE, s |-> s, parsed |-> parsed]
    ELSE LET raw == Trim(s.manualLapInputs[i])
         IN  IF raw = <<>>
             THEN syncLoop(s, i + 1, parsed, TRUE, normalize,
                           allowTrailingEmpty)
             ELSE IF seenEmpty /\ ~allowTrailingEmpty
             THEN [ok |-> FALSE, parsed |-> parsed,
                   s |-> [s EXCEPT !.lapError = [kind |-> "gap", lap |-> i]]]
             ELSE LET sec == parseFlexibleMmSsToSeconds(raw)
                  IN  IF sec = Null
                      THEN [ok |-> FALSE, parsed |-> parsed,
                            s |-> [s EXCEPT !.lapError =
                                      [kind |-> "unparseable", lap |-> i]]]
                      ELSE IF notAfterPrevious(parsed, sec)
                      THEN [ok |-> FALSE, parsed |-> parsed,
                            s |-> [s EXCEPT !.lapError =
                                      [kind |-> "increasing", lap |-> i]]]
                      ELSE syncLoop(
                               IF normalize
                               THEN [s EXCEPT !.manualLapInputs[i] =
                                                  formatMmSs(sec)]
                               ELSE s,
                               i + 1, Append(parsed, sec), seenEmpty,
                               normalize, allowTrailingEmpty)

FirstGap(cells) ==
    LET gaps == {i \in 1..Len(cells) :
                    /\ Trim(cells[i]) # <<>>
                    /\ \E j \in 1..(i - 1) : Trim(cells[j]) = <<>>}
    IN  IF gaps = {} THEN 0
        ELSE CHOOSE i \in gaps : \A j \in gaps : i <= j

syncLapTimesFromManualTable_partial(s, normalize, allowTrailingEmpty) ==
    IF Len(s.manualLapInputs) = 0
    THEN [ok |-> TRUE, s |-> [s EXCEPT !.lapTimes = <<>>]]
    ELSE LET r == syncLoop(s, 1, <<>>, FALSE, normalize, allowTrailingEmpty)
         IN  IF ~r.ok
             THEN [ok |-> FALSE, s |-> [r.s EXCEPT !.lapTimes = r.parsed]]
             ELSE LET g == FirstGap(r.s.manualLapInputs)
                  IN  IF g # 0
                      THEN [ok |-> FALSE,
                            s |-> [r.s EXCEPT !.lapTimes = r.parsed,
                                              !.lapError =
                                      [kind |-> "gap", lap |-> g]]]
                      ELSE [ok |-> TRUE,
                            s |-> [r.s EXCEPT !.lapError = NoError,
                                              !.lapTimes = r.parsed]]

syncLapTimesFromManualTable(s, normalize, allowTrailingEmpty) ==
    IF Len(s.manualLapInputs) = 0
    THEN [ok |-> TRUE, s |-> [s EXCEPT !.lapTimes = <<>>]]
    ELSE LET r == syncLoop(s, 1, <<>>, FALSE, normalize, allowTrailingEmpty)
         IN  IF ~r.ok THEN [ok |-> FALSE, s |-> r.s]
             ELSE LET g == FirstGap(r.s.manualLapInputs)
                  IN  IF g # 0
                      THEN [ok |-> FALSE,
                            s |-> [r.s EXCEPT !.lapError =
                                      [kind |-> "gap", lap |-> g]]]
                      ELSE [ok |-> TRUE,
                            s |-> [r.s EXCEPT !.lapError = NoError,
                                              !.lapTimes = r.parsed]]

refreshStopwatchButtonState_manualKeepsStart(s) ==
    LET isFinished == s.toggleText = "Finished"
    IN  [s EXCEPT !.toggleDisabled = isFinished,
                  !.lapDisabled = ~s.stopwatchRunning \/ isFinished,
                  !.resetDisabled =
                      IF isFinished THEN FALSE
                      ELSE s.elapsedMs <= 0 /\ Len(s.lapTimes) = 0]

refreshStopwatchButtonState(s) ==
    LET isFinished == s.toggleText = "Finished"
    IN  IF s.isManualMode
        THEN [s EXCEPT !.toggleDisabled = TRUE,
                       !.lapDisabled = TRUE,
                       !.resetDisabled = FALSE]
        ELSE [s EXCEPT !.toggleDisabled = isFinished,
                       !.lapDisabled = ~s.stopwatchRunning \/ isFinished,
                       !.resetDisabled =
                           IF isFinished THEN FALSE
                           ELSE s.elapsedMs <= 0 /\ Len(s.lapTimes) = 0]

setManualMode_keepsRunning(s, on) ==
    LET s1 == [s EXCEPT !.isManualMode = on]
        s3 == IF s1.isManualMode /\ Len(s1.manualLapInputs) = 0
              THEN clearManualLapTableToSingleRow(s1) ELSE s1
        s4 == IF s3.isManualMode
              THEN syncLapTimesFromManualTable(s3, TRUE, TRUE).s ELSE s3
    IN  refreshStopwatchButtonState(s4)

setManualMode(s, on) ==
    LET s1 == [s EXCEPT !.isManualMode = on]
        s2 == IF s1.isManualMode /\ s1.stopwatchRunning
              THEN stopTimer(s1) ELSE s1
        s3 == IF s2.isManualMode /\ Len(s2.manualLapInputs) = 0
              THEN clearManualLapTableToSingleRow(s2) ELSE s2
        s4 == IF s3.isManualMode
              THEN syncLapTimesFromManualTable(s3, TRUE, TRUE).s ELSE s3
    IN  refreshStopwatchButtonState(s4)

keydownEnter(s, i) ==
    LET r == syncLapTimesFromManualTable(s, TRUE, TRUE)
    IN  IF ~r.ok THEN r.s
        ELSE IF i + 1 > Len(r.s.manualLapInputs)
        THEN addManualLapRow(r.s)
        ELSE r.s

manualClearLaps(s) ==
    clearManualLapTableToSingleRow(
        [s EXCEPT !.lapError = NoError, !.lapTimes = <<>>])

-----------------------------------------------------------------------------
(* Per-minute distance calculation *)

RECURSIVE SortAscending(_)
SortAscending(xs) ==
    IF xs = <<>> THEN <<>>
    ELSE LET i == CHOOSE i \in 1..Len(xs) : \A j \in 1..Len(xs) : xs[i] <= xs[j]
         IN  <<xs[i]>> \o
             SortAscending(SubSeq(xs, 1, i - 1) \o SubSeq(xs, i + 1, Len(xs)))

RECURSIVE lapsLoop(_, _, _, _)
lapsLoop(sortedLapTimes, tSeconds, i, count) ==
    IF i > Len(sortedLapTimes) THEN count
    ELSE IF sortedLapTimes[i] <= tSeconds
    THEN lapsLoop(sortedLapTimes, tSeconds, i + 1, count + 1)
    ELSE count

getLapsCompletedByTime_skipsFirst(sortedLapTimes, tSeconds) ==
    lapsLoop(sortedLapTimes, tSeconds, 2, 0)

getLapsCompletedByTime_before(sortedLapTimes, tSeconds) ==
    lapsLoop(sortedLapTimes, tSeconds - 1, 1, 0)

getLapsCompletedByTime(sortedLapTimes, tSeconds) ==
    lapsLoop(sortedLapTimes, tSeconds, 1, 0)

positionToOffsetWithinLap_halfLap(posM, direction) ==
    IF direction = "out" THEN posM
    ELSE IF direction = "back" THEN (LAP_LENGTH_M \div 2) - posM
    ELSE Null

positionToOffsetWithinLap(posM, direction) ==
    IF direction = "out" THEN posM
    ELSE IF direction = "back" THEN LAP_LENGTH_M - posM
    ELSE Null

(* A minute input is [kind, pos, dir]: kind is "blank" for an empty position
   field, "nan" for text parseFloat cannot read, "num" for a number pos. *)
MinuteFailure(cp) ==
    IF cp.kind = "blank" THEN "missing"
    ELSE IF cp.kind = "nan" \/ cp.pos < 0 \/ cp.pos > 25 THEN "position"
    ELSE IF cp.dir # "out" /\ cp.dir # "back" THEN "direction"
    ELSE "ok"

FirstBadMinute_last(cps) ==
    LET bad == {m \in 1..6 : MinuteFailure(cps[m]) # "ok"}
    IN  IF bad = {} THEN 0 ELSE CHOOSE m \in bad : \A k \in bad : m >= k

FirstBadMinute(cps) ==
    LET bad == {m \in 1..6 : MinuteFailure(cps[m]) # "ok"}
    IN  IF bad = {} THEN 0 ELSE CHOOSE m \in bad : \A k \in bad : m <= k

enforceNonDecreasing_noClamp(totalDistance, prevTotalDistance) ==
    totalDistance

enforceNonDecreasing_inverted(totalDistance, prevTotalDistance) ==
    IF totalDistance > prevTotalDistance
    THEN prevTotalDistance ELSE totalDistance

enforceNonDecreasing(totalDistance, prevTotalDistance) ==
    IF totalDistance < prevTotalDistance
    THEN prevTotalDistance ELSE totalDistance

RECURSIVE rowsLoop(_, _, _, _, _)
rowsLoop(sortedLapTimes, minuteInfo, i, prevTotalDistance, rows) ==
    IF i > Len(minuteInfo) THEN rows
    ELSE LET tSec == i * 60 * SecUnit
             lapsCompleted == getLapsCompletedByTime(sortedLapTimes, tSec)
             distFullLaps == lapsCompleted * LAP_LENGTH_M
             offset == positionToOffsetWithinLap(minuteInfo[i].pos,
                                                 minuteInfo[i].dir)
             totalDistance == enforceNonDecreasing(distFullLaps + offset,
                                                   prevTotalDistance)
             distanceThisMinute == totalDistance - prevTotalDistance
         IN  rowsLoop(sortedLapTimes, minuteInfo, i + 1, totalDistance,
                      Append(rows, [minute |-> i,
                                    distanceThisMinuteM |-> distanceThisMinute,
                                    totalDistanceM |-> totalDistance]))

calculate_noResync(s, cps) ==
    LET s1 == [s EXCEPT !.lapError = NoError,
                        !.minuteError = [kind |-> "none", minute |-> 0]]
        r == [ok |-> TRUE, s |-> s1]
    IN  IF ~r.ok
        THEN [r.s EXCEPT !.resultsBox = [kind |-> "error", what |-> "manual",
                                         minute |-> 0]]
        ELSE LET sortedLapTimes == SortAscending(r.s.lapTimes)
                 bad == FirstBadMinute(cps)
             IN  IF bad # 0
                 THEN [r.s EXCEPT
                          !.minuteError = [kind |-> MinuteFailure(cps[bad]),
                                           minute |-> bad],
                          !.resultsBox = [kind |-> "error",
                                          what |-> MinuteFailure(cps[bad]),
                                          minute |-> bad]]
                 ELSE LET rows == rowsLoop(sortedLapTimes, cps, 1, 0, <<>>)
                          totalDistanceAll ==
                              IF Len(rows) > 0
                              THEN rows[Len(rows)].totalDistanceM ELSE 0
                          totalLapsAll ==
                              (totalDistanceAll * LapsUnit) \div LAP_LENGTH_M
                      IN  [r.s EXCEPT !.resultsBox =
                              [kind |-> "rows", rows |-> rows,
                               totalDistanceAll |-> totalDistanceAll,
                               totalLapsAll |-> totalLapsAll]]

calculate_noSort(s, cps) ==
    LET s1 == [s EXCEPT !.lapError = NoError,
                        !.minuteError = [kind |-> "none", minute |-> 0]]
        r == IF s1.isManualMode
             THEN syncLapTimesFromManualTable(s1, TRUE, TRUE)
             ELSE [ok |-> TRUE, s |-> s1]
    IN  IF ~r.ok
        THEN [r.s EXCEPT !.resultsBox = [kind |-> "error", what |-> "manual",
                                         minute |-> 0]]
        ELSE LET sortedLapTimes == r.s.lapTimes
                 bad == FirstBadMinute(cps)
             IN  IF bad # 0
                 THEN [r.s EXCEPT
                          !.minuteError = [kind |-> MinuteFailure(cps[bad]),
                                           minute |-> bad],
                          !.resultsBox = [kind |-> "error",
                                          what |-> MinuteFailure(cps[bad]),
                                          minute |-> bad]]
                 ELSE LET rows == rowsLoop(sortedLapTimes, cps, 1, 0, <<>>)
                          totalDistanceAll ==
                              IF Len(rows) > 0
                              THEN rows[Len(rows)].totalDistanceM ELSE 0
                          totalLapsAll ==
                              (totalDistanceAll * LapsUnit) \div LAP_LENGTH_M
                      IN  [r.s EXCEPT !.resultsBox =
                              [kind |-> "rows", rows |-> rows,
                               totalDistanceAll |-> totalDistanceAll,
                               totalLapsAll |-> totalLapsAll]]

calculate_totalOfFirstRow(s, cps) ==
    LET s1 == [s EXCEPT !.lapError = NoError,
                        !.minuteError = [kind |-> "none", minute |-> 0]]
        r == IF s1.isManualMode
             THEN syncLapTimesFromManualTable(s1, TRUE, TRUE)
             ELSE [ok |-> TRUE, s |-> s1]
    IN  IF ~r.ok
        THEN [r.s EXCEPT !.resultsBox = [kind |-> "error", what |-> "manual",
                                         minute |-> 0]]
        ELSE LET sortedLapTimes == SortAscending(r.s.lapTimes)
                 bad == FirstBadMinute(cps)
             IN  IF bad # 0
                 THEN [r.s EXCEPT
                          !.minuteError = [kind |-> MinuteFailure(cps[bad]),
                                           minute |-> bad],
                          !.resultsBox = [kind |-> "error",
                                          what |-> MinuteFailure(cps[bad]),
                                          minute |-> bad]]
                 ELSE LET rows == rowsLoop(sortedLapTimes, cps, 1, 0, <<>>)
                          totalDistanceAll ==
                              IF Len(rows) > 0
                              THEN rows[1].totalDistanceM ELSE 0
                          totalLapsAll ==
                              (totalDistanceAll * LapsUnit) \div LAP_LENGTH_M
                      IN  [r.s EXCEPT !.resultsBox =
                              [kind |-> "rows", rows |-> rows,
                               totalDistanceAll |-> totalDistanceAll,
                               totalLapsAll |-> totalLapsAll]]

calculate(s, cps) ==
    LET s1 == [s EXCEPT !.lapError = NoError,
                        !.minuteError = [kind |-> "none", minute |-> 0]]
        r == IF s1.isManualMode
             THEN syncLapTimesFromManualTable(s1, TRUE, TRUE)
             ELSE [ok |-> TRUE, s |-> s1]
    IN  IF ~r.ok
        THEN [r.s EXCEPT !.resultsBox = [kind |-> "error", what |-> "manual",
                                         minute |-> 0]]
        ELSE LET sortedLapTimes == SortAscending(r.s.lapTimes)
                 bad == FirstBadMinute(cps)
             IN  IF bad # 0
                 THEN [r.s EXCEPT
                          !.minuteError = [kind |-> MinuteFailure(cps[bad]),
                                           minute |-> bad],
                          !.resultsBox = [kind |-> "error",
                                          what |-> MinuteFailure(cps[bad]),
                                          minute |-> bad]]
                 ELSE LET rows == rowsLoop(sortedLapTimes, cps, 1, 0, <<>>)
                          totalDistanceAll ==
                              IF Len(rows) > 0
                              THEN rows[Len(rows)].totalDistanceM ELSE 0
                          totalLapsAll ==
                              (totalDistanceAll * LapsUnit) \div LAP_LENGTH_M
                      IN  [r.s EXCEPT !.resultsBox =
                              [kind |-> "rows", rows |-> rows,
                               totalDistanceAll |-> totalDistanceAll,
                               totalLapsAll |-> totalLapsAll]]

clearResults(s) ==
    [s EXCEPT !.resultsBox = InitialResults,
              !.lapError = NoError,
              !.minuteError = [kind |-> "none", minute |-> 0]]

clearAll(s) == resetTimer(s)

-----------------------------------------------------------------------------
(* Inputs *)

(* Texts typed into a cell while the stopwatch is modelled with it: a blank
   and one time, enough for a gap and for a repeated time.  ManualCellTexts
   below has the texts that do not parse. *)
CellTexts ==
    { <<>>,
      <<":", "4", "5">> }

Out(p) == [kind |-> "num", pos |-> p, dir |-> "out"]

Back(p) == [kind |-> "num", pos |-> p, dir |-> "back"]

CheckpointInputs ==
    { <<Back(10), Out(10), Out(0), Back(5), Out(25), Out(5)>>,
      <<Out(5), [kind |-> "num", pos |-> 3, dir |-> ""], Out(0),
        [kind |-> "nan", pos |-> 0, dir |-> "out"], Out(0), Out(0)>> }

-----------------------------------------------------------------------------
(* Initial state: the values the script's declarations and its last lines
   ("Initial UI state") leave behind *)

Init ==
    /\ now = 0
    /\ elapsedMs = 0
    /\ stopwatchRunning = FALSE
    /\ stopwatchStartTime = Null
    /\ animationFrameId = Null
    /\ pendingFrames = {}
    /\ lapTimes = <<>>
    /\ isManualMode = FALSE
    /\ manualLapInputs = <<>>
    /\ lapError = NoError
    /\ minuteError = [kind |-> "none", minute |-> 0]
    /\ resultsBox = InitialResults
    /\ toggleText = "Start"
    /\ toggleDisabled = FALSE
    /\ lapDisabled = TRUE
    /\ resetDisabled = TRUE
    /\ runningMs = 0

-----------------------------------------------------------------------------
(* Actions.  ClockAdvance and EditCell are the environment (time passing, the
   user typing); the others run one handler or function to completion.  A
   click handler runs only while its button is enabled, and the manual area's
   handlers only while setManualMode shows that area.  StopTimer and RecordLap
   are the functions called directly, so that their own early returns are
   exercised as well.

   Bound on the environment: resultsBox and minuteError are written and never
   read by any handler, so results left on screen only multiply every later
   state.  The user therefore dismisses them (Clear results) before going on:
   every action except Calculate, ClearResults and ClearAll waits for
   ResultsDismissed.  Every value of the other variables that is reachable
   without this discipline is reachable with it. *)

ResultsDismissed == resultsBox = InitialResults

ClockAdvance ==
    \E d \in ClockSteps :
        /\ ResultsDismissed
        /\ now + d <= MaxNow
        /\ Becomes([State EXCEPT !.now = now + d])
        /\ runningMs' = IF stopwatchRunning THEN runningMs + d ELSE runningMs

Tick ==
    \E id \in pendingFrames :
        /\ ResultsDismissed
        /\ Becomes(tick([State EXCEPT !.pendingFrames = @ \ {id}]))
        /\ UNCHANGED runningMs

(* tick run while the timer does not run: a frame callback that outlived its
   cancellation.  Only the early return of tick can act. *)
DanglingTick ==
    /\ ResultsDismissed
    /\ ~stopwatchRunning
    /\ Becomes(tick(State))
    /\ UNCHANGED runningMs

ToggleTimer ==
    /\ ResultsDismissed
    /\ ~toggleDisabled
    /\ Becomes(toggleTimer(State))
    /\ UNCHANGED runningMs

(* startTimer called directly: while the timer runs, where only its early
   return can act, or where the Start button would be clickable. *)
StartTimer ==
    /\ ResultsDismissed
    /\ stopwatchRunning \/ ~toggleDisabled
    /\ Becomes(startTimer(State))
    /\ UNCHANGED runningMs

StopTimer ==
    /\ ResultsDismissed
    /\ Becomes(stopTimer(State))
    /\ UNCHANGED runningMs

RecordLap ==
    /\ ResultsDismissed
    /\ Len(recordLap(State).lapTimes) <= MaxLaps
    /\ Becomes(recordLap(State))
    /\ UNCHANGED runningMs

ResetTimer ==
    /\ ResultsDismissed
    /\ ~resetDisabled
    /\ Becomes(resetTimer(State))
    /\ runningMs' = 0

SetManualMode ==
    /\ ResultsDismissed
    /\ Becomes(setManualMode(State, ~isManualMode))
    /\ UNCHANGED runningMs

EditCell ==
    \E i \in 1..Len(manualLapInputs), text \in CellTexts :
        /\ ResultsDismissed
        /\ isManualMode
        /\ Becomes([State EXCEPT !.manualLapInputs[i] = text])
        /\ UNCHANGED runningMs

KeydownEnter ==
    \E i \in 1..Len(manualLapInputs) :
        /\ ResultsDismissed
        /\ isManualMode
        /\ Len(keydownEnter(State, i).manualLapInputs) <= MaxCells
        /\ Becomes(keydownEnter(State, i))
        /\ UNCHANGED runningMs

ManualClearLaps ==
    /\ ResultsDismissed
    /\ isManualMode
    /\ Becomes(manualClearLaps(State))
    /\ UNCHANGED runningMs

Calculate ==
    \E cps \in CheckpointInputs :
        /\ Becomes(calculate(State, cps))
        /\ UNCHANGED runningMs

ClearResults ==
    /\ Becomes(clearResults(State))
    /\ UNCHANGED runningMs

ClearAll ==
    /\ Becomes(clearAll(State))
    /\ runningMs' = 0

Next ==
    \/ ClockAdvance
    \/ Tick
    \/ DanglingTick
    \/ ToggleTimer
    \/ StartTimer
    \/ StopTimer
    \/ RecordLap
    \/ ResetTimer
    \/ SetManualMode
    \/ EditCell
    \/ KeydownEnter
    \/ ManualClearLaps
    \/ Calculate
    \/ ClearResults
    \/ ClearAll

Spec == Init /\ [][Next]_vars

-----------------------------------------------------------------------------
(* The manual lap table on its own: the page with the clock standing still,
   so that the table can take more texts.  The stopwatch can still be started
   and a lap recorded at time 0, which gives the table a live ledger to
   replace. *)

ManualCellTexts ==
    { <<>>,
      <<":", "4", "5">>,
      <<"5", "0">>,
      <<"1", ":">> }

TypeInCell_syncsOnInput ==
    \E i \in 1..Len(manualLapInputs), text \in ManualCellTexts :
        /\ ResultsDismissed
        /\ isManualMode
        /\ Becomes(syncLapTimesFromManualTable(
                       [State EXCEPT !.manualLapInputs[i] = text,
                                     !.lapError = NoError],
                       FALSE, TRUE).s)
        /\ UNCHANGED runningMs

TypeInCell ==
    \E i \in 1..Len(manualLapInputs), text \in ManualCellTexts :
        /\ ResultsDismissed
        /\ isManualMode
        /\ Becomes([State EXCEPT !.manualLapInputs[i] = text])
        /\ UNCHANGED runningMs

NextManual ==
    \/ ToggleTimer
    \/ RecordLap
    \/ SetManualMode
    \/ TypeInCell
    \/ KeydownEnter
    \/ ManualClearLaps
    \/ Calculate
    \/ ClearResults
    \/ ClearAll

SpecManual == Init /\ [][NextManual]_vars

-----------------------------------------------------------------------------
(* The calculation on its own: the page after a walk was timed live, the laps
   of a ledger recorded at their times and the timer stopped at the last one,
   on which calculate runs with any six checkpoints. *)

MaxCalcLaps == 3

CalcLapValues ==
    { 45 * SecUnit, 60 * SecUnit, 65 * SecUnit, 130 * SecUnit, 205 * SecUnit,
      360 * SecUnit }

CalcLedgers ==
    { l \in UNION { [1..n -> CalcLapValues] : n \in 0..MaxCalcLaps } :
        \A i \in 1..(Len(l) - 1) : l[i] < l[i + 1] }

ValidCheckpoints == { Out(0), Out(20), Back(10) }

(* Every minute at the start line, walking out or coming back. *)
AllOutZero == [m \in 1..6 |-> Out(0)]

AllBackZero == [m \in 1..6 |-> Back(0)]

CalcInputs ==
    [1..6 -> ValidCheckpoints] \cup CheckpointInputs \cup {AllBackZero}

InitCalc ==
    \E l \in CalcLedgers :
        \E stoppedAt \in {IF Len(l) = 0 THEN 0 ELSE l[Len(l)]} :
            /\ now = stoppedAt
            /\ elapsedMs = stoppedAt
            /\ stopwatchRunning = FALSE
            /\ stopwatchStartTime = stoppedAt
            /\ animationFrameId = Null
            /\ pendingFrames = {}
            /\ lapTimes = l
            /\ isManualMode = FALSE
            /\ manualLapInputs = <<>>
            /\ lapError = NoError
            /\ minuteError = [kind |-> "none", minute |-> 0]
            /\ resultsBox = InitialResults
            /\ toggleText = "Start"
            /\ toggleDisabled = FALSE
            /\ lapDisabled = TRUE
            /\ resetDisabled = FALSE
            /\ runningMs = stoppedAt

CalculateAny ==
    \E cps \in CalcInputs :
        /\ ResultsDismissed
        /\ Becomes(calculate(State, cps))
        /\ UNCHANGED runningMs

NextCalc ==
    \/ CalculateAny
    \/ ClearResults

SpecCalc == InitCalc /\ [][NextCalc]_vars

-----------------------------------------------------------------------------
(* Formatting and parsing on their own: the page after the timer was stopped
   at some duration and manual mode switched on.  A time is typed, or the
   timer display or its mm:ss form copied, into the first row of the cleared
   table and submitted with Enter. *)

Durations ==
    { 0, 100, 900, 5 * SecUnit, 59900, 60 * SecUnit, 65300, 195 * SecUnit,
      359900, 360 * SecUnit }

MinuteDigits == { <<"2">>, <<"0", "2">>, <<"1", "0", "0">> }

SecondDigits ==
    { <<"5">>, <<"0", "5">>, <<"7", "5">>, <<"1", "0", "0">>,
      <<"0", "7", "5">> }

InitText ==
    \E d \in Durations :
        /\ now = d
        /\ elapsedMs = d
        /\ stopwatchRunning = FALSE
        /\ stopwatchStartTime = d
        /\ animationFrameId = Null
        /\ pendingFrames = {}
        /\ lapTimes = <<>>
        /\ isManualMode = TRUE
        /\ manualLapInputs = << <<>> >>
        /\ lapError = NoError
        /\ minuteError = [kind |-> "none", minute |-> 0]
        /\ resultsBox = InitialResults
        /\ toggleText = "Start"
        /\ toggleDisabled = TRUE
        /\ lapDisabled = TRUE
        /\ resetDisabled = FALSE
        /\ runningMs = d

TableCleared == manualLapInputs = << <<>> >>

TypeMinutesSeconds ==
    \E m \in MinuteDigits, s \in SecondDigits :
        /\ TableCleared
        /\ Becomes([State EXCEPT !.manualLapInputs[1] = m \o <<":">> \o s])
        /\ UNCHANGED runningMs

CopyTimerDisplay ==
    \E text \in formatTimeSeconds(elapsedMs) :
        /\ TableCleared
        /\ Becomes([State EXCEPT !.manualLapInputs[1] = text])
        /\ UNCHANGED runningMs

CopyMmSs ==
    /\ TableCleared
    /\ Becomes([State EXCEPT !.manualLapInputs[1] = formatMmSs(elapsedMs)])
    /\ UNCHANGED runningMs

(* Seconds on their own: digits, or a colon and one to three digits. *)
SecondsOnlyTexts ==
    { <<"9", "0">>, <<"0", "0", "7">>,
      <<":", "3", "8">>, <<":", "5">>, <<":", "1", "2", "3">> }

(* Minutes and seconds with a tenth of a second behind them. *)
TenthsTexts ==
    { <<"1", ":", "0", "2", ".", "5">>, <<"0", ":", "5", "9", ".", "9">>,
      <<"2", ":", "5", ".", "0">> }

(* Texts that are no time: a colon without seconds, a colon alone, letters,
   two colons, a decimal point, a sign, a blank between digits. *)
MalformedTexts ==
    { <<"1", ":">>, <<":">>, <<"a", "b">>, <<"1", ":", "2", ":", "3">>,
      <<"1", ".", "5">>, <<"-", "5">>, <<"1", " ", "2">> }

(* One of these texts typed over the first cell, whatever it held. *)
TypeOtherText ==
    \E text \in SecondsOnlyTexts \cup TenthsTexts \cup MalformedTexts :
        /\ Becomes([State EXCEPT !.manualLapInputs[1] = text])
        /\ UNCHANGED runningMs

NextText ==
    \/ TypeMinutesSeconds
    \/ TypeOtherText
    \/ CopyTimerDisplay
    \/ CopyMmSs
    \/ KeydownEnter
    \/ ManualClearLaps

SpecText == InitText /\ [][NextText]_vars

-----------------------------------------------------------------------------
(* The walk left to run its course: once the timer runs, nobody presses Stop
   or Reset or switches to Manual mode; laps may be recorded, and while the
   timer is stopped the user may reset it or work in the manual table.

   Fairness.  The clock of the page keeps advancing (WF on ClockAdvance), and
   the browser delivers every frame callback that stays requested (WF on
   Tick): tick is the only callback the script requests, and a request stays
   pending until it is delivered or cancelled.

   Bound on the environment: the clock of the model ends at MaxNow, so a walk
   is started only while the clock can still cover what is left of the six
   minutes. *)

StartInTime == now + (MaxMs - elapsedMs) <= MaxNow

StartWalk ==
    /\ ~stopwatchRunning
    /\ StartInTime
    /\ ToggleTimer

ResetStopped ==
    /\ ~stopwatchRunning
    /\ ResetTimer

SetManualModeStopped ==
    /\ ~stopwatchRunning
    /\ SetManualMode

NextLive ==
    \/ ClockAdvance
    \/ Tick
    \/ StartWalk
    \/ RecordLap
    \/ ResetStopped
    \/ SetManualModeStopped
    \/ EditCell
    \/ KeydownEnter
    \/ ManualClearLaps

SpecLive ==
    /\ Init
    /\ [][NextLive]_vars
    /\ WF_vars(ClockAdvance)
    /\ WF_vars(Tick)

-----------------------------------------------------------------------------
(* Properties of the stopwatch and the lap ledger *)

Min(a, b) == IF a <= b THEN a ELSE b

Last(xs) == xs[Len(xs)]

(* The time recordLap samples: elapsedMs + (performance.now() - start) *)
SampledTime == elapsedMs + (now - stopwatchStartTime)

(* C1: in every reachable state the lap ledger is strictly increasing,
   lap[i] < lap[i+1] for every index i. *)
C1_LedgerStrictlyIncreasing ==
    \A i \in 1..(Len(lapTimes) - 1) : lapTimes[i] < lapTimes[i + 1]

(* A ledger whose first entry came from the manual table (00:45) and whose
   second was recorded live on top of it. *)
C1_Witness ==
    /\ ~isManualMode
    /\ Len(lapTimes) = 2
    /\ lapTimes[1] = 45 * SecUnit
    /\ lapTimes[2] > lapTimes[1]
    /\ runningMs >= lapTimes[2]

(* C2: in every reachable state the stored elapsed time is at most
   360000 ms, however far the clock advanced between two ticks. *)
C2_ElapsedNeverAboveCeiling ==
    elapsedMs <= MaxMs

(* The timer ran for longer than six minutes and the stored value is the
   ceiling. *)
C2_Witness ==
    /\ runningMs > MaxMs
    /\ elapsedMs = MaxMs

(* C5: recordLap while the timer is running rejects a sample t that is not
   greater than the last ledger entry (ledger unchanged, "lap ignored"
   advisory shown) and otherwise appends t, leaving earlier entries alone. *)
C5_RecordLapRejectsOrAppends ==
    [][(RecordLap /\ stopwatchRunning) =>
          IF Len(lapTimes) > 0 /\ SampledTime <= Last(lapTimes)
          THEN lapTimes' = lapTimes /\ lapError'.kind = "lapIgnored"
          ELSE lapTimes' = Append(lapTimes, SampledTime)]_vars

(* A rejected double tap: the timer runs, the advisory is shown and the
   sample equals the last entry. *)
C5_Witness ==
    /\ stopwatchRunning
    /\ lapError.kind = "lapIgnored"
    /\ Len(lapTimes) > 0
    /\ SampledTime = Last(lapTimes)

(* C10: recordLap while the timer is not running changes nothing: the
   ledger, the timer and the error texts are the same before and after. *)
C10_RecordLapWhileStoppedIsNoOp ==
    [][(RecordLap /\ ~stopwatchRunning) => UNCHANGED progVars]_vars

(* A stopped timer with a ledger and an advisory still on screen, on which
   recordLap can be called with a sample above the last entry. *)
C10_Witness ==
    /\ ~stopwatchRunning
    /\ stopwatchStartTime # Null
    /\ Len(lapTimes) = 1
    /\ lapError.kind = "lapIgnored"
    /\ SampledTime > Last(lapTimes)
    /\ ENABLED RecordLap

-----------------------------------------------------------------------------
(* Properties of the manual lap table *)

(* The table as a submission reads it: setManualMode first gives a table
   without rows its single blank row. *)
SubmittedCells ==
    IF Len(manualLapInputs) = 0 THEN << <<>> >> ELSE manualLapInputs

IsBlank(cell) == Trim(cell) = <<>>

NonBlankCells == SelectSeq(SubmittedCells, LAMBDA cell : ~IsBlank(cell))

ParsedCells ==
    [i \in 1..Len(NonBlankCells) |->
        parseFlexibleMmSsToSeconds(NonBlankCells[i])]

(* No filled cell below a blank one, every filled cell reads as a time, and
   the times read are strictly increasing. *)
TableValidates ==
    /\ \A i, j \in 1..Len(SubmittedCells) :
          (i < j /\ IsBlank(SubmittedCells[i])) => IsBlank(SubmittedCells[j])
    /\ \A i \in 1..Len(ParsedCells) : ParsedCells[i] # Null
    /\ \A i \in 1..(Len(ParsedCells) - 1) : ParsedCells[i] < ParsedCells[i + 1]

(* The steps that submit the table: Enter in a cell, Calculate in manual
   mode, and switching manual mode on. *)
SubmitsTable ==
    \/ KeydownEnter
    \/ isManualMode /\ Calculate
    \/ ~isManualMode /\ SetManualMode

(* C4: a submission of the manual table either validates as a whole and
   makes the ledger exactly the parsed values of the non-blank cells in
   order, or leaves the ledger as it was and shows an error. *)
C4_ManualSubmissionIsAtomic ==
    [][SubmitsTable =>
          IF TableValidates
          THEN lapTimes' = ParsedCells
          ELSE /\ lapTimes' = lapTimes
               /\ lapError'.kind \in {"gap", "unparseable", "increasing"}]_vars

(* Rows 1 and 2 had been accepted as 00:45 and 00:50; then row 1 was
   retyped as 50 and row 2 failed the increasing check.  The ledger is still
   the one from before: the parsed prefix <<50>> was not stored. *)
C4_Witness ==
    /\ isManualMode
    /\ lapError = [kind |-> "increasing", lap |-> 2]
    /\ Len(manualLapInputs) >= 2
    /\ parseFlexibleMmSsToSeconds(manualLapInputs[1]) = 50 * SecUnit
    /\ lapTimes = <<45 * SecUnit, 50 * SecUnit>>

-----------------------------------------------------------------------------
(* Properties of Reset and Stop *)

Idle ==
    /\ ~stopwatchRunning
    /\ elapsedMs = 0
    /\ stopwatchStartTime = Null
    /\ lapTimes = <<>>
    /\ toggleText = "Start"
    /\ ~toggleDisabled

(* C8: from every reachable state, Reset and Clear all end in the Idle
   state: not running, elapsed 0, reference instant cleared, ledger empty,
   Start enabled. *)
C8_ResetEndsIdle ==
    [][(ResetTimer \/ ClearAll) => Idle']_vars

(* Clear all has run on a manual table whose Calculate had failed, at a
   moment when Start was disabled by manual mode. *)
C8_Witness ==
    /\ Idle
    /\ ~isManualMode
    /\ manualLapInputs = <<>>
    /\ resultsBox.kind = "error"
    /\ resultsBox.what = "manual"

(* C9: stopTimer does nothing when the timer is not running; when it runs,
   it clears the running flag and leaves elapsedMs = min(360000, the time
   spent running since the last reset). *)
C9_StopKeepsRunningTime ==
    [][(StopTimer \/ (ToggleTimer /\ stopwatchRunning)) =>
          IF stopwatchRunning
          THEN /\ ~stopwatchRunning'
               /\ elapsedMs' = Min(MaxMs, runningMs)
               /\ elapsedMs' = Min(MaxMs, SampledTime)
          ELSE UNCHANGED progVars]_vars

(* Stopped by stopTimer after exactly six minutes of running, on a clock
   that also counted time during which the timer did not run. *)
C9_Witness ==
    /\ ~stopwatchRunning
    /\ toggleText = "Start"
    /\ elapsedMs = runningMs
    /\ runningMs = MaxMs
    /\ now > runningMs
    /\ stopwatchStartTime = now

-----------------------------------------------------------------------------
(* Properties of the calculation *)

(* What the rows loop computes for minute m before it compares with the
   previous total: lapsCompleted * 50 + offset. *)
RawTotal(cps, m) ==
    getLapsCompletedByTime(SortAscending(lapTimes), m * 60 * SecUnit)
        * LAP_LENGTH_M
    + positionToOffsetWithinLap(cps[m].pos, cps[m].dir)

(* C3: whenever calculate produces result rows, the cumulative totals are
   non-decreasing from minute 1 to minute 6, also where a minute's raw value
   is lower than the previous minute's total. *)
C3_TotalsNonDecreasing ==
    resultsBox.kind = "rows" =>
        /\ Len(resultsBox.rows) = 6
        /\ \A i \in 1..5 : resultsBox.rows[i].totalDistanceM
                               <= resultsBox.rows[i + 1].totalDistanceM

(* Laps at 0:45 and 2:10; minute 1 is 10 m from the far end on the way back
   (total 90) and minute 2 is 10 m out on the same lap count (raw 60): the
   rows shown keep 90 for minute 2. *)
C3_Witness ==
    /\ resultsBox.kind = "rows"
    /\ lapTimes = <<45 * SecUnit, 130 * SecUnit>>
    /\ LET cps == <<Back(10), Out(10), Out(0), Back(5), Out(25), Out(5)>>
       IN  /\ resultsBox = calculate(State, cps).resultsBox
           /\ RawTotal(cps, 2) < resultsBox.rows[1].totalDistanceM
           /\ resultsBox.rows[2].totalDistanceM
                  = resultsBox.rows[1].totalDistanceM
           /\ resultsBox.rows[2].distanceThisMinuteM = 0

-----------------------------------------------------------------------------
(* Properties of the six-minute ceiling *)

(* C7: every operation that samples a running time above 360000 ms, Stop
   included, stores exactly 360000 and leaves the timer Finished, with Start
   and Lap disabled. *)
C7_CeilingAlwaysFinishes ==
    [][((Tick \/ ToggleTimer \/ StopTimer)
          /\ stopwatchRunning /\ SampledTime > MaxMs) =>
          /\ elapsedMs' = MaxMs
          /\ ~stopwatchRunning'
          /\ toggleText' = "Finished"
          /\ toggleDisabled'
          /\ lapDisabled']_vars

(* C6: once elapsed has reached the ceiling and the timer has stopped, Start
   and RecordLap leave the timer and the ledger as they are. *)
C6_FinishedIsTerminal ==
    [][(elapsedMs = MaxMs /\ ~stopwatchRunning
          /\ (ToggleTimer \/ RecordLap)) =>
          UNCHANGED <<elapsedMs, stopwatchRunning, stopwatchStartTime,
                      lapTimes>>]_vars

-----------------------------------------------------------------------------
(* Properties of Start *)

(* C11: startTimer while the timer runs changes nothing (reference instant,
   elapsedMs, running flag, pending frames); from a stopped timer, Start
   resumes with elapsedMs as it was. *)
C11_StartNoOpOrResume ==
    [][(StartTimer \/ (ToggleTimer /\ ~stopwatchRunning)) =>
          IF stopwatchRunning
          THEN UNCHANGED progVars
          ELSE /\ stopwatchRunning'
               /\ elapsedMs' = elapsedMs
               /\ stopwatchStartTime' = now]_vars

(* A running timer that keeps 180 s from before its reference instant and has
   run 180 s past it: a startTimer that captured the clock again would move
   the reference instant and queue a second frame. *)
C11_Witness ==
    /\ stopwatchRunning
    /\ elapsedMs = 180 * SecUnit
    /\ stopwatchStartTime = 360 * SecUnit
    /\ now = 540 * SecUnit
    /\ pendingFrames = {animationFrameId}
    /\ ENABLED StartTimer

-----------------------------------------------------------------------------
(* Properties of the manual table's error reports *)

(* The first filled cell that has a blank cell above it, 0 if there is none. *)
GapCell ==
    LET filledBelowBlank ==
            {j \in 1..Len(SubmittedCells) :
                /\ ~IsBlank(SubmittedCells[j])
                /\ \E i \in 1..(j - 1) : IsBlank(SubmittedCells[i])}
    IN  IF filledBelowBlank = {} THEN 0
        ELSE CHOOSE j \in filledBelowBlank : \A k \in filledBelowBlank : j <= k

(* The cells above cell j that are filled, read as times. *)
ParsedAbove(j) ==
    LET above == SelectSeq(SubSeq(SubmittedCells, 1, j - 1),
                           LAMBDA cell : ~IsBlank(cell))
    IN  [i \in 1..Len(above) |-> parseFlexibleMmSsToSeconds(above[i])]

(* Every filled cell above cell j reads as a time and they increase. *)
ValidAbove(j) ==
    /\ \A i \in 1..Len(ParsedAbove(j)) : ParsedAbove(j)[i] # Null
    /\ \A i \in 1..(Len(ParsedAbove(j)) - 1) :
          ParsedAbove(j)[i] < ParsedAbove(j)[i + 1]

(* C12: a submitted table with a filled cell below a blank one, and nothing
   wrong above that cell, is rejected with the gap error naming that cell,
   and the ledger stays as it was. *)
C12_GapReportedAtCell ==
    [][(SubmitsTable /\ GapCell # 0 /\ ValidAbove(GapCell)) =>
          /\ lapError' = [kind |-> "gap", lap |-> GapCell]
          /\ lapTimes' = lapTimes]_vars

(* The first filled cell whose time is not after the time of the filled cell
   before it, 0 if there is none. *)
NonIncreasingCell ==
    LET late ==
            {j \in 1..Len(SubmittedCells) :
                /\ ~IsBlank(SubmittedCells[j])
                /\ parseFlexibleMmSsToSeconds(SubmittedCells[j]) # Null
                /\ Len(ParsedAbove(j)) > 0
                /\ Last(ParsedAbove(j)) # Null
                /\ parseFlexibleMmSsToSeconds(SubmittedCells[j])
                      <= Last(ParsedAbove(j))}
    IN  IF late = {} THEN 0
        ELSE CHOOSE j \in late : \A k \in late : j <= k

(* C13: a submitted table in which a time is not after the time before it,
   and nothing else is wrong up to that cell, is rejected with the
   strictly-increasing error naming the later cell, and the ledger stays as
   it was. *)
C13_NonIncreasingReportedAtCell ==
    [][(SubmitsTable /\ NonIncreasingCell # 0
          /\ ValidAbove(NonIncreasingCell)
          /\ (GapCell = 0 \/ GapCell > NonIncreasingCell)) =>
          /\ lapError' = [kind |-> "increasing", lap |-> NonIncreasingCell]
          /\ lapTimes' = lapTimes]_vars

(* Row 1 had been accepted as 00:45; then row 1 was retyped as 50 and row 2
   as :45, and the submission failed at row 2 with the ledger still <<45>>. *)
C13_Witness ==
    /\ isManualMode
    /\ lapError = [kind |-> "increasing", lap |-> 2]
    /\ Len(manualLapInputs) = 2
    /\ parseFlexibleMmSsToSeconds(manualLapInputs[1]) = 50 * SecUnit
    /\ parseFlexibleMmSsToSeconds(manualLapInputs[2]) = 45 * SecUnit
    /\ lapTimes = <<45 * SecUnit>>

-----------------------------------------------------------------------------
(* Properties of the start line and of whole laps *)

(* The number of ledger entries at or before minute m. *)
EntriesBy(m) ==
    Cardinality({i \in 1..Len(lapTimes) : lapTimes[i] <= m * 60 * SecUnit})

(* C14: position 0 converts to offset 0 in both directions, so rows computed
   from six checkpoints at the start line on the way back show 50 m per
   completed lap and nothing more. *)
C14_PositionZeroAddsNothing ==
    /\ positionToOffsetWithinLap(0, "out") = 0
    /\ positionToOffsetWithinLap(0, "back") = 0
    /\ (resultsBox.kind = "rows"
          /\ resultsBox = calculate(State, AllBackZero).resultsBox) =>
          \A m \in 1..6 :
              resultsBox.rows[m].totalDistanceM = LAP_LENGTH_M * EntriesBy(m)

(* C15: with all six checkpoints at position 0 going out, the total of minute
   m is 50 times the number of ledger entries <= 60*m s, the grand total 50
   times the number of entries <= 360 s and the lap total that number. *)
C15_WholeLapsOnly ==
    (resultsBox.kind = "rows"
       /\ resultsBox = calculate(State, AllOutZero).resultsBox) =>
       /\ \A m \in 1..6 :
             resultsBox.rows[m].totalDistanceM = LAP_LENGTH_M * EntriesBy(m)
       /\ resultsBox.totalDistanceAll = LAP_LENGTH_M * EntriesBy(6)
       /\ resultsBox.totalLapsAll = EntriesBy(6) * LapsUnit

(* Scenario A: ledger 65, 130, 205 s gives 0, 50, 100, 150, 150, 150 and
   3.000 laps. *)
C15_Witness ==
    /\ lapTimes = <<65 * SecUnit, 130 * SecUnit, 205 * SecUnit>>
    /\ resultsBox.kind = "rows"
    /\ resultsBox = calculate(State, AllOutZero).resultsBox
    /\ [m \in 1..6 |-> resultsBox.rows[m].totalDistanceM]
          = <<0, 50, 100, 150, 150, 150>>
    /\ resultsBox.totalDistanceAll = 150
    /\ resultsBox.totalLapsAll = 3 * LapsUnit

-----------------------------------------------------------------------------
(* Properties of parsing and formatting *)

(* C16: a cell digits:digits is read as minutes * 60 + seconds whatever the
   number of digits on either side, seconds of 60 and more carried. *)
C16_MinutesSecondsAnyDigits ==
    [][KeydownEnter =>
          \A m \in MinuteDigits, s \in SecondDigits :
              manualLapInputs = << m \o <<":">> \o s >> =>
                  lapTimes' = << (ParseInt(m) * 60 + ParseInt(s)) * SecUnit >>]_vars

(* C17 as claimed: the timer display mm:ss.t of a duration, submitted in a
   cell, is read back as that duration to the tenth of a second. *)
C17_DisplayRoundTrip ==
    [][(KeydownEnter /\ Len(manualLapInputs) = 1
          /\ manualLapInputs[1] \in formatTimeSeconds(elapsedMs)) =>
          /\ Len(lapTimes') = 1
          /\ elapsedMs - lapTimes'[1] \in 0..100]_vars

(* C17 as amended: the mm:ss form of a duration (formatMmSs), submitted in a
   cell, is read back as that duration in whole seconds. *)
C17_MmSsRoundTrip ==
    [][(KeydownEnter /\ Len(manualLapInputs) = 1
          /\ manualLapInputs[1] = formatMmSs(elapsedMs)) =>
          /\ lapTimes' = << (elapsedMs \div SecUnit) * SecUnit >>
          /\ lapError' = NoError]_vars

(* 65.3 s was written as 01:05 and read back as 65 s. *)
C17_Witness ==
    /\ elapsedMs = 65300
    /\ manualLapInputs[1] = <<"0", "1", ":", "0", "5">>
    /\ lapTimes = <<65 * SecUnit>>
    /\ lapError = NoError

-----------------------------------------------------------------------------
(* Properties of the two entry modes *)

(* C18: switching manual mode on while the timer runs stops the timer, and
   for as long as manual mode stays on the timer is stopped and elapsedMs
   does not move with the clock. *)
C18_ManualModeStopsTimer ==
    [][/\ (SetManualMode /\ ~isManualMode /\ stopwatchRunning) =>
             /\ isManualMode'
             /\ ~stopwatchRunning'
             /\ pendingFrames' = {}
             /\ elapsedMs' = Min(MaxMs, SampledTime)
       /\ (isManualMode /\ isManualMode') =>
             /\ ~stopwatchRunning'
             /\ elapsedMs' = elapsedMs]_vars

(* Manual mode, the timer stopped at 180 s by the switch or before it, and
   the clock 180 s further on. *)
C18_Witness ==
    /\ isManualMode
    /\ ~stopwatchRunning
    /\ elapsedMs = 180 * SecUnit
    /\ runningMs = elapsedMs
    /\ stopwatchStartTime = 180 * SecUnit
    /\ now = 360 * SecUnit
    /\ toggleText = "Start"
    /\ toggleDisabled

(* A time the manual table of this model can give.  Live samples are whole
   multiples of the clock step and never such a time, so an entry with this
   value came from the table. *)
FromTable(t) ==
    \E text \in CellTexts : parseFlexibleMmSsToSeconds(text) = t

(* C19: the ledger never holds manual-table times and live samples together:
   recordLap never appends to a ledger that holds a time from the table. *)
C19_NeverMerged ==
    [][(RecordLap /\ lapTimes' # lapTimes) =>
          \A i \in 1..Len(lapTimes) : ~FromTable(lapTimes[i])]_vars

(* C20: Calculate in manual mode first reads the ledger from the table and
   computes the rows from that ledger, and on a table that does not read it
   shows an error and no rows; in live mode it computes the rows from the
   ledger as recorded. *)
C20_CalculateUsesCurrentLedger ==
    [][Calculate =>
          LET used == IF isManualMode THEN ParsedCells ELSE lapTimes
          IN  IF isManualMode /\ ~TableValidates
              THEN /\ resultsBox' = [kind |-> "error", what |-> "manual",
                                     minute |-> 0]
                   /\ lapError'.kind \in {"gap", "unparseable", "increasing"}
                   /\ lapTimes' = lapTimes
              ELSE /\ lapTimes' = used
                   /\ resultsBox'.kind = "rows" =>
                         \E cps \in CheckpointInputs :
                             resultsBox'.rows =
                                 rowsLoop(SortAscending(used), cps, 1, 0, <<>>)
                   /\ resultsBox'.kind = "error" =>
                         resultsBox'.what # "manual"]_vars

(* Rows computed in manual mode for the table 00:45, 00:50: two laps done by
   minute 1, where the checkpoint is 10 m from the far end on the way back. *)
C20_Witness ==
    /\ isManualMode
    /\ lapTimes = <<45 * SecUnit, 50 * SecUnit>>
    /\ resultsBox.kind = "rows"
    /\ resultsBox.rows[1].totalDistanceM = 2 * LAP_LENGTH_M + 40

-----------------------------------------------------------------------------
(* Properties of the checkpoint validation *)

(* A checkpoint with a number in [0, 25] as position and out or back as
   direction. *)
ValidCheckpoint(cp) ==
    /\ cp.kind = "num"
    /\ cp.pos >= 0
    /\ cp.pos <= 25
    /\ cp.dir \in {"out", "back"}

(* The first minute whose checkpoint is not valid; only used where there is
   one. *)
LowestInvalid(cps) ==
    CHOOSE m \in 1..6 :
        /\ ~ValidCheckpoint(cps[m])
        /\ \A k \in 1..(m - 1) : ValidCheckpoint(cps[k])

(* The Calculate click with the six checkpoints cps in the fields. *)
CalculateWith(cps) ==
    /\ Becomes(calculate(State, cps))
    /\ UNCHANGED runningMs

(* The timer's variables stay as they are. *)
TimerUnchanged ==
    UNCHANGED <<elapsedMs, stopwatchRunning, stopwatchStartTime,
                animationFrameId, pendingFrames, toggleText>>

(* What calculate shows for checkpoints that are not all valid: the error of
   the first offending minute and no rows, the timer left alone. *)
ReportsLowestInvalid(cps) ==
    /\ resultsBox'.kind = "error"
    /\ resultsBox'.minute = LowestInvalid(cps)
    /\ minuteError'.minute = LowestInvalid(cps)
    /\ minuteError'.kind \in {"missing", "position", "direction"}
    /\ TimerUnchanged

(* C21 as stated: whenever the six checkpoints are not all valid, calculate
   reports the error of the lowest offending minute, shows no rows and
   leaves the timer alone. *)
C21_InvalidCheckpointNamed ==
    [][\A cps \in CheckpointInputs :
          (CalculateWith(cps) /\ \E m \in 1..6 : ~ValidCheckpoint(cps[m]))
              => ReportsLowestInvalid(cps)]_vars

(* C21: calculate shows rows only if all six checkpoints are valid;
   when they are not, and in manual mode the table has been accepted, it
   reports the error of the lowest offending minute, shows no rows and
   leaves the timer alone. *)
C21_InvalidCheckpointNamedAfterLedger ==
    [][\A cps \in CheckpointInputs :
          (CalculateWith(cps) /\ \E m \in 1..6 : ~ValidCheckpoint(cps[m]))
              => /\ resultsBox'.kind # "rows"
                 /\ TimerUnchanged
                 /\ (isManualMode => TableValidates)
                        => ReportsLowestInvalid(cps)]_vars

(* Manual mode with the table 00:45, 00:50 accepted; minute 2 has no
   direction and minute 4 no number: minute 2 is the one reported. *)
C21_Witness ==
    /\ isManualMode
    /\ lapTimes = <<45 * SecUnit, 50 * SecUnit>>
    /\ resultsBox = [kind |-> "error", what |-> "direction", minute |-> 2]
    /\ minuteError = [kind |-> "direction", minute |-> 2]

-----------------------------------------------------------------------------
(* Properties of the order of the manual table's checks *)

(* What is wrong with cell j of the submitted table, taking the checks in
   the order gap, unparseable, not increasing: "none" for a blank cell and
   for a cell that passes all three. *)
FailureOf(j) ==
    LET cell == SubmittedCells[j]
        sec == parseFlexibleMmSsToSeconds(cell)
    IN  IF IsBlank(cell) THEN "none"
        ELSE IF \E i \in 1..(j - 1) : IsBlank(SubmittedCells[i]) THEN "gap"
        ELSE IF sec = Null THEN "unparseable"
        ELSE IF /\ Len(ParsedAbove(j)) > 0
                /\ Last(ParsedAbove(j)) # Null
                /\ sec <= Last(ParsedAbove(j)) THEN "increasing"
        ELSE "none"

(* The topmost cell with something wrong, 0 if there is none. *)
LowestFailingCell ==
    LET failing == {j \in 1..Len(SubmittedCells) : FailureOf(j) # "none"}
    IN  IF failing = {} THEN 0
        ELSE CHOOSE j \in failing : \A k \in failing : j <= k

(* C22: a submitted table that does not validate is reported with the error
   of its topmost failing cell, the checks of a cell taken in the order gap,
   unparseable, not increasing; never with the error of a cell below it. *)
C22_FirstFailureWins ==
    [][(SubmitsTable /\ LowestFailingCell # 0) =>
          /\ lapError'.lap = LowestFailingCell
          /\ lapError'.kind = FailureOf(LowestFailingCell)]_vars

-----------------------------------------------------------------------------
(* Properties of the rows *)

Max(a, b) == IF a >= b THEN a ELSE b

(* The total of the minute before minute m in the rows shown, 0 before
   minute 1. *)
PrevTotal(m) ==
    IF m = 1 THEN 0 ELSE resultsBox.rows[m - 1].totalDistanceM

(* Checkpoint vectors for the comparison with the rows shown: any valid
   checkpoint in minutes 1 to 3, then 20 m out in minutes 4 to 6, which is
   below, at or above the previous total depending on the laps done. *)
ClampInputs ==
    { [m \in 1..6 |-> IF m <= 3 THEN first[m] ELSE Out(20)] :
          first \in [1..3 -> ValidCheckpoints] }

(* Those of them that give the rows shown. *)
CheckpointsShown ==
    {cps \in ClampInputs :
        resultsBox.rows = rowsLoop(SortAscending(lapTimes), cps, 1, 0, <<>>)}

(* C23: in the rows shown, the total of minute m is the larger of
   lapsCompleted(m) * 50 + offset(m) and the total of minute m - 1 (0 before
   minute 1), the distance of the minute is the difference of the two totals
   and never negative, a raw value below the previous total gives distance
   0, and no error is shown. *)
C23_SilentClamp ==
    resultsBox.kind = "rows" =>
        /\ minuteError.kind = "none"
        /\ lapError = NoError
        /\ \A cps \in CheckpointsShown : \A m \in 1..6 :
              /\ resultsBox.rows[m].totalDistanceM
                    = Max(RawTotal(cps, m), PrevTotal(m))
              /\ resultsBox.rows[m].distanceThisMinuteM
                    = resultsBox.rows[m].totalDistanceM - PrevTotal(m)
              /\ resultsBox.rows[m].distanceThisMinuteM >= 0
              /\ RawTotal(cps, m) < PrevTotal(m)
                    => resultsBox.rows[m].distanceThisMinuteM = 0

(* One lap at exactly 1:00; minute 1 is 10 m from the far end on the way
   back (total 90), minutes 2 and 3 are at the start line going out (raw 50)
   and the later ones 20 m out (raw 70): every later row keeps 90 and shows
   distance 0. *)
C23_Witness ==
    /\ resultsBox.kind = "rows"
    /\ lapTimes = <<60 * SecUnit>>
    /\ minuteError.kind = "none"
    /\ <<Back(10), Out(0), Out(0), Out(20), Out(20), Out(20)>>
          \in CheckpointsShown
    /\ \A m \in 2..6 :
          /\ resultsBox.rows[m].totalDistanceM = 90
          /\ resultsBox.rows[m].distanceThisMinuteM = 0

-----------------------------------------------------------------------------
(* Properties of the offset within the lap *)

(* The positions a checkpoint can have. *)
Positions == 0..25

(* C24 as stated: the offset is the position on the way out and
   25 - position on the way back, for every position above 0, so that the
   total shown for minute 1 is 50 per completed lap plus that offset. *)
C24_BackIsHalfLapMinusPosition ==
    resultsBox.kind = "rows" =>
        \A cps \in CheckpointsShown :
            /\ cps[1].pos \in Positions
            /\ cps[1].pos > 0 =>
                  resultsBox.rows[1].totalDistanceM
                      = LAP_LENGTH_M * EntriesBy(1)
                        + (IF cps[1].dir = "out" THEN cps[1].pos
                           ELSE (LAP_LENGTH_M \div 2) - cps[1].pos)

(* C24: the offset is the position on the way out and 50 - position on the
   way back, for every position above 0; the total shown for minute 1, which
   has no earlier total to be held at, is 50 per completed lap plus that
   offset. *)
C24_BackIsLapMinusPosition ==
    /\ \A p \in Positions :
          /\ positionToOffsetWithinLap(p, "out") = p
          /\ p > 0 => positionToOffsetWithinLap(p, "back") = LAP_LENGTH_M - p
    /\ resultsBox.kind = "rows" =>
          \A cps \in CheckpointsShown :
              resultsBox.rows[1].totalDistanceM
                  = LAP_LENGTH_M * EntriesBy(1)
                    + (IF cps[1].dir = "out" THEN cps[1].pos
                       ELSE LAP_LENGTH_M - cps[1].pos)

(* One lap at 0:45 and minute 1 taken 10 m from the far end on the way
   back: 50 + 40 = 90 m. *)
C24_Witness ==
    /\ resultsBox.kind = "rows"
    /\ lapTimes = <<45 * SecUnit>>
    /\ \E cps \in CheckpointsShown : cps[1] = Back(10)
    /\ resultsBox.rows[1].totalDistanceM = 90

-----------------------------------------------------------------------------
(* Properties of the lap count *)

(* C25: for the ledger at hand and every minute m, the laps completed by
   minute m are the ledger entries at or before 60*m seconds, an entry at
   exactly 60*m included; the total shown for a minute is never below 50 m
   per such entry. *)
C25_LapsCompletedCountsEntries ==
    /\ \A m \in 1..6 :
          getLapsCompletedByTime(SortAscending(lapTimes), m * 60 * SecUnit)
              = EntriesBy(m)
    /\ resultsBox.kind = "rows" =>
          \A m \in 1..6 :
              resultsBox.rows[m].totalDistanceM >= LAP_LENGTH_M * EntriesBy(m)

(* Laps at exactly 1:00, at 1:05 and at exactly 6:00: one lap counts for
   minute 1, two for minutes 2 to 5, three for minute 6, and rows are
   shown. *)
C25_Witness ==
    /\ lapTimes = <<60 * SecUnit, 65 * SecUnit, 360 * SecUnit>>
    /\ [m \in 1..6 |->
          getLapsCompletedByTime(SortAscending(lapTimes), m * 60 * SecUnit)]
          = <<1, 2, 2, 2, 2, 3>>
    /\ resultsBox.kind = "rows"
    /\ resultsBox.rows[1].totalDistanceM >= LAP_LENGTH_M
    /\ resultsBox.rows[6].totalDistanceM >= 3 * LAP_LENGTH_M

-----------------------------------------------------------------------------
(* Properties of the order of the ledger *)

(* The orders in which the entries of the ledger can be handed over. *)
Reorderings(xs) ==
    { [i \in 1..Len(xs) |-> xs[f[i]]] :
          f \in { g \in [1..Len(xs) -> 1..Len(xs)] :
                      \A i, j \in 1..Len(xs) : i # j => g[i] # g[j] } }

(* C26: the calculation gives the rows and totals shown for every order of
   the same lap times with the same six checkpoints. *)
C26_LedgerOrderIrrelevant ==
    resultsBox.kind = "rows" =>
        \A cps \in CheckpointsShown : \A xs \in Reorderings(lapTimes) :
            calculate([State EXCEPT !.lapTimes = xs], cps).resultsBox
                = resultsBox

(* Rows shown for the laps 1:05, 2:10, 3:25, which have six orders; taken
   backwards, without sorting, no lap would count before minute 4. *)
C26_Witness ==
    /\ resultsBox.kind = "rows"
    /\ lapTimes = <<65 * SecUnit, 130 * SecUnit, 205 * SecUnit>>
    /\ Cardinality(Reorderings(lapTimes)) = 6
    /\ CheckpointsShown # {}
    /\ resultsBox.rows[2].totalDistanceM >= LAP_LENGTH_M
    /\ resultsBox.totalDistanceAll = 3 * LAP_LENGTH_M + 20

-----------------------------------------------------------------------------
(* Properties of the totals *)

(* The distances of minutes 1 to m of the rows shown, added up. *)
RECURSIVE SumOfDistances(_)
SumOfDistances(m) ==
    IF m = 0 THEN 0
    ELSE SumOfDistances(m - 1) + resultsBox.rows[m].distanceThisMinuteM

(* C27: the grand total shown is the total of minute 6 and also the sum of
   the six per-minute distances, and the lap total is the grand total
   divided by 50. *)
C27_GrandTotalAgrees ==
    resultsBox.kind = "rows" =>
        /\ resultsBox.totalDistanceAll = resultsBox.rows[6].totalDistanceM
        /\ resultsBox.totalDistanceAll = SumOfDistances(6)
        /\ resultsBox.totalLapsAll * LAP_LENGTH_M
              = resultsBox.totalDistanceAll * LapsUnit

(* Laps at 0:45 and 3:25: the totals go 90, 90, 90, 120, 120, 120, so the
   distances are 90, 0, 0, 30, 0, 0, and the grand total is 120 m, 2.4
   laps. *)
C27_Witness ==
    /\ resultsBox.kind = "rows"
    /\ lapTimes = <<45 * SecUnit, 205 * SecUnit>>
    /\ [m \in 1..6 |-> resultsBox.rows[m].distanceThisMinuteM]
          = <<90, 0, 0, 30, 0, 0>>
    /\ resultsBox.totalDistanceAll = 120
    /\ resultsBox.totalLapsAll = 2400

-----------------------------------------------------------------------------
(* Properties of the other cell texts *)

(* The steps that submit a table whose first cell holds text and whose other
   cells are blank. *)
SubmitsFirstCell(text) ==
    /\ KeydownEnter
    /\ manualLapInputs[1] = text
    /\ \A i \in 2..Len(manualLapInputs) : IsBlank(manualLapInputs[i])

(* C28: a cell of digits only, and a cell of a colon and one to three
   digits, is read as that many whole seconds. *)
C28_SecondsOnly ==
    [][\A text \in SecondsOnlyTexts :
          SubmitsFirstCell(text) =>
              /\ lapError' = NoError
              /\ lapTimes' = << ParseInt(IF text[1] = ":" THEN Tail(text)
                                         ELSE text) * SecUnit >>]_vars

(* C29 as stated: a cell minutes:seconds.digit is accepted and read as
   minutes * 60 + seconds and digit tenths. *)
C29_TenthsAccepted ==
    [][\A text \in TenthsTexts :
          SubmitsFirstCell(text) =>
              /\ lapError' = NoError
              /\ Len(lapTimes') = 1
              /\ lapTimes'[1] % SecUnit
                    = DigitVal(text[Len(text)]) * (SecUnit \div 10)]_vars

(* C29: a cell minutes:seconds.digit is not read as a time: the
   submission is rejected as unparseable at that cell and the ledger stays
   as it was. *)
C29_TenthsRejected ==
    [][\A text \in TenthsTexts :
          SubmitsFirstCell(text) =>
              /\ lapError' = [kind |-> "unparseable", lap |-> 1]
              /\ lapTimes' = lapTimes]_vars

(* "1:02.5" was typed over an accepted 02:05 and submitted: the error is on
   lap 1 and the ledger is still 125 s. *)
C29_Witness ==
    /\ manualLapInputs[1] = <<"1", ":", "0", "2", ".", "5">>
    /\ lapError = [kind |-> "unparseable", lap |-> 1]
    /\ lapTimes = <<125 * SecUnit>>

(* C30: a cell that is not blank and is no time (a colon without seconds
   among them) is unparseable: the submission is rejected with the error at
   that cell and the ledger stays as it was. *)
C30_MalformedRejected ==
    [][\A text \in MalformedTexts :
          SubmitsFirstCell(text) =>
              /\ parseFlexibleMmSsToSeconds(text) = Null
              /\ lapError' = [kind |-> "unparseable", lap |-> 1]
              /\ lapTimes' = lapTimes]_vars

(* "1:" was typed over an accepted 02:05 and submitted: it was not read as
   1:00, the error is on lap 1 and the ledger is still 125 s. *)
C30_Witness ==
    /\ manualLapInputs[1] = <<"1", ":">>
    /\ lapError = [kind |-> "unparseable", lap |-> 1]
    /\ lapTimes = <<125 * SecUnit>>

-----------------------------------------------------------------------------
(* Properties of the frame callback *)

(* C31: tick run while the timer does not run writes nothing: elapsedMs,
   stopwatchStartTime, the ledger and the running flag stay as they are, and
   no new frame is requested. *)
C31_DanglingTickWritesNothing ==
    [][DanglingTick =>
          UNCHANGED <<elapsedMs, stopwatchStartTime, lapTimes,
                      stopwatchRunning, animationFrameId, pendingFrames,
                      toggleText>>]_vars

(* Stopped at 180 s with a lap in the ledger, the clock 180 s further on: a
   tick that sampled the clock here would move elapsedMs. *)
C31_Witness ==
    /\ ~stopwatchRunning
    /\ ~isManualMode
    /\ elapsedMs = 180 * SecUnit
    /\ stopwatchStartTime = 180 * SecUnit
    /\ now = 360 * SecUnit
    /\ lapTimes = <<180 * SecUnit>>
    /\ ENABLED DanglingTick

(* C32: whenever the timer does not run, no frame callback is pending and
   animationFrameId is null: Stop, Reset, the ceiling and the switch to
   manual mode all cancel the frame they find. *)
C32_StoppedHasNoPendingFrame ==
    ~stopwatchRunning =>
        /\ pendingFrames = {}
        /\ animationFrameId = Null

(* The tick that found the ceiling ended the run: the button says Finished
   and the frame chain is gone. *)
C32_Witness ==
    /\ ~stopwatchRunning
    /\ toggleText = "Finished"
    /\ elapsedMs = MaxMs
    /\ pendingFrames = {}
    /\ animationFrameId = Null

(* C33: whenever the timer runs, stopwatchStartTime is not null. *)
C33_RunningHasReference ==
    stopwatchRunning => stopwatchStartTime # Null

(* Started 180 s after the page was loaded: stopwatchStartTime, null until
   then, is the clock at the start. *)
C33_Witness ==
    /\ stopwatchRunning
    /\ elapsedMs = 0
    /\ runningMs = 0
    /\ now = 180 * SecUnit
    /\ stopwatchStartTime = 180 * SecUnit

(* C34: a tick of the running timer below the ceiling does not change the
   time recordLap would sample at that instant, elapsedMs + (now - start),
   and leaves elapsedMs, the value displayed, equal to that sample and to
   the time spent running. *)
C34_TickKeepsSample ==
    [][(Tick /\ stopwatchRunning /\ SampledTime < MaxMs) =>
          /\ stopwatchRunning'
          /\ elapsedMs' + (now' - stopwatchStartTime') = SampledTime
          /\ elapsedMs' = SampledTime
          /\ elapsedMs' = runningMs']_vars

(* Started at clock 180 s; the tick at clock 360 s moved the 180 s of running
   from the clock difference into elapsedMs, and the lap recorded after it
   sampled 180 s. *)
C34_Witness ==
    /\ stopwatchRunning
    /\ now = 360 * SecUnit
    /\ stopwatchStartTime = 360 * SecUnit
    /\ elapsedMs = 180 * SecUnit
    /\ runningMs = 180 * SecUnit
    /\ lapTimes = <<180 * SecUnit>>
    /\ pendingFrames = {animationFrameId}

-----------------------------------------------------------------------------
(* Properties of typing in the manual table *)

(* A step shows a new error of the manual table. *)
SurfacesTableError ==
    /\ lapError' # lapError
    /\ lapError'.kind \in {"gap", "unparseable", "increasing"}

(* A step gives the ledger new times while the page is in manual mode. *)
ReplacesLedgerFromTable ==
    /\ isManualMode'
    /\ lapTimes' # lapTimes
    /\ lapTimes' # <<>>

(* C35 as stated: the table is validated and the ledger replaced only by
   Calculate or Enter (no handler is bound to a cell losing focus); typing
   in a cell changes neither the ledger nor the error shown. *)
C35_OnlyEnterOrCalculateValidates ==
    [][/\ TypeInCell => UNCHANGED <<lapTimes, lapError>>
       /\ (SurfacesTableError \/ ReplacesLedgerFromTable) =>
             (KeydownEnter \/ Calculate)]_vars

(* C35: the table is validated and the ledger replaced only by
   Calculate, Enter or switching manual mode on; typing in a cell changes
   neither the ledger nor the error shown. *)
C35_OnlyExplicitActionsValidate ==
    [][/\ TypeInCell => UNCHANGED <<lapTimes, lapError>>
       /\ (SurfacesTableError \/ ReplacesLedgerFromTable) =>
             (KeydownEnter \/ Calculate \/ (~isManualMode /\ SetManualMode))]_vars

(* "1:" typed over an accepted 00:45 and not submitted: no error is shown
   and the ledger is still 45 s. *)
C35_Witness ==
    /\ isManualMode
    /\ Len(manualLapInputs) = 2
    /\ manualLapInputs[1] = <<"1", ":">>
    /\ parseFlexibleMmSsToSeconds(manualLapInputs[1]) = Null
    /\ lapError = NoError
    /\ lapTimes = <<45 * SecUnit>>
    /\ resultsBox = InitialResults

(* C36: toggleTimer switches between the two states and completes normally.
   Wherever the Start/Stop button can be clicked, every toggleTimer of the
   repository leaves a stopped timer running and a running timer stopped with
   the time it had run (at most the ceiling) kept in elapsedMs. *)
C36_ToggleSwitchesState ==
    ~toggleDisabled =>
        \A after \in {toggleTimer(State), toggleTimer_secondScript(State)} :
            /\ after.stopwatchRunning = ~stopwatchRunning
            /\ stopwatchRunning => after.elapsedMs = Min(MaxMs, SampledTime)

(* C37: every lap time appended by live RecordLap is at most 360 seconds,
   also when the clock has passed the ceiling and no tick has clamped the
   timer yet. *)
C37_RecordedLapWithinCeiling ==
    [][(RecordLap /\ Len(lapTimes') = Len(lapTimes) + 1) =>
          lapTimes'[Len(lapTimes')] <= MaxMs]_vars

(* C38: in every reachable state Manual mode being on implies that the timer
   is not running, and recordLap called while Manual mode is on leaves the
   ledger as it is. *)
C38_ManualModeExcludesLiveTiming ==
    isManualMode =>
        /\ ~stopwatchRunning
        /\ recordLap(State).lapTimes = lapTimes

(* Manual mode with a lap of 45 s taken from the table, after a live run that
   the switch stopped at 180 s, the clock now at 540 s: a sample taken here
   would be later than the last entry. *)
C38_Witness ==
    /\ isManualMode
    /\ lapTimes = <<45 * SecUnit>>
    /\ manualLapInputs[1] = <<":", "4", "5">>
    /\ elapsedMs = 180 * SecUnit
    /\ runningMs = 180 * SecUnit
    /\ now = 540 * SecUnit
    /\ lapDisabled

(* C39: at most one refresh callback is pending at any time, under every
   interleaving of Start, Stop, Reset, mode switches and tick deliveries; while
   the timer runs the pending callback is the one whose id is stored, so no
   second self-rescheduling chain is alive. *)
C39_AtMostOnePendingFrame ==
    /\ Cardinality(pendingFrames) <= 1
    /\ stopwatchRunning => pendingFrames = {animationFrameId}

(* The timer running in its second cycle: it ran 180 s, was stopped, and was
   started again when the clock showed 540 s. *)
C39_Witness ==
    /\ stopwatchRunning
    /\ elapsedMs = 180 * SecUnit
    /\ runningMs = 180 * SecUnit
    /\ stopwatchStartTime = 540 * SecUnit
    /\ now = 540 * SecUnit
    /\ Cardinality(pendingFrames) = 1

(* C40: if the timer is running, the clock keeps advancing and the refresh
   callbacks keep being delivered, and neither Stop nor Reset nor a switch to
   Manual mode intervenes, then the timer eventually is Finished with elapsed
   exactly 360 s and the running flag false. *)
C40_RunningLeadsToFinished ==
    stopwatchRunning ~>
        (/\ ~stopwatchRunning
         /\ toggleText = "Finished"
         /\ elapsedMs = MaxMs)

(* A walk started when the clock showed 180 s, one lap recorded at 180 s of
   running, ended by the tick that sampled exactly 360 s. *)
C40_Witness ==
    /\ ~stopwatchRunning
    /\ toggleText = "Finished"
    /\ elapsedMs = MaxMs
    /\ runningMs = MaxMs
    /\ now = 540 * SecUnit
    /\ lapTimes = <<180 * SecUnit>>

====
